---- MODULE Spec2Model ----
(***************************************************************************)
(* Model of the streaming fs-verity digest engine of src/src/lib.rs:       *)
(* FixedSizeBlock, FsVerityDigest (new, update, finalize_into,             *)
(* finalize_into_reset, reset) and the VerityDigestExt helpers.            *)
(*                                                                         *)
(* The hash primitive D (Sha256, Sha512) is modelled as an ideal hash: a   *)
(* digest state is the sequence of bytes fed to it so far, and the output  *)
(* is OutputSize bytes that determine that sequence.  A byte is a record:  *)
(* [b |-> n] is the raw byte n, [h |-> st] is the first byte of the digest *)
(* of state st and [d |-> i] its i-th byte (i > 1).                        *)
(***************************************************************************)
EXTENDS Integers, Sequences, FiniteSets, TLC

VARIABLES
    cfg,      \* the arguments the engine was constructed with: [D, block_size, salt]
    stream,   \* which input stream the caller feeds
    fed,      \* number of bytes of the stream passed to update since construction or reset
    engine,   \* the FsVerityDigest value, Panic, or Moved (consumed by finalize)
    result,   \* what the last finalize produced: [out, last_digest, descriptor], or NoResult
    last,     \* the last operation applied
    held      \* bytes the engine had consumed when the last finalize or reset was
              \* applied to it (0 after any other operation)

vars == <<cfg, stream, fed, engine, result, last, held>>

----------------------------------------------------------------------------
(* Bounds of the model *)

\* updates stop once this many bytes have been fed
MaxTotal == 260

\* the lengths of the data passed to one update call
ChunkLens == {0, 1, 31, 63, 64, 65, 130}

----------------------------------------------------------------------------
(* Program constants *)

FS_VERITY_HASH_ALG_SHA256 == 1
FS_VERITY_HASH_ALG_SHA512 == 2
MAX_SALT_SIZE == 32
MAX_BLOCK_SIZE == 4096
DEFAULT_BLOCK_SIZE == 4096

\* the two implementations of VerityDigestExt: algorithm id, OutputSize and
\* (compression) BlockSize of the primitive
Sha256 == [alg |-> FS_VERITY_HASH_ALG_SHA256, OutputSize |-> 32, BlockSize |-> 64]
Sha512 == [alg |-> FS_VERITY_HASH_ALG_SHA512, OutputSize |-> 64, BlockSize |-> 128]

----------------------------------------------------------------------------
(* Values *)

Min(a, b) == IF a <= b THEN a ELSE b

Byte(n) == [b |-> n]
Zeroes(n) == [i \in 1..n |-> Byte(0)]

\* a panic (failed assert!, unwrap() of None) aborts the operation
Panic == [panic |-> TRUE]
IsPanic(x) == "panic" \in DOMAIN x

\* an engine that finalize_into(self) has consumed
Moved == [moved |-> TRUE]
NoResult == [none |-> TRUE]

----------------------------------------------------------------------------
(* The digest primitive D: Update + FixedOutput + Default + Clone *)

digest_new(D) == [D |-> D, data |-> <<>>]

digest_update(st, data) == [st EXCEPT !.data = @ \o data]

digest_finalize(st) ==
    [i \in 1..st.D.OutputSize |-> IF i = 1 THEN [h |-> st] ELSE [d |-> i]]

\* Default::default() of Output<D>: OutputSize zero bytes
output_default(D) == Zeroes(D.OutputSize)

\* the loop feeds `amount` zero bytes in pieces of at most 64; a digest state
\* depends on the bytes fed, not on the pieces they came in
update_zeroes(st, amount) == digest_update(st, Zeroes(amount))

update_padded(st, data, padded_size) ==
    IF Len(data) > padded_size THEN Panic     \* checked_sub(..).unwrap()
    ELSE update_zeroes(digest_update(st, data), padded_size - Len(data))

----------------------------------------------------------------------------
(* FixedSizeBlock *)

FixedSizeBlock_new(inner, block_size) == [inner |-> inner, remaining |-> block_size]

\* an append that saturates at 0 instead of panicking
append_saturating(blk, data) ==
    [inner |-> digest_update(blk.inner, data),
     remaining |-> IF Len(data) > blk.remaining THEN 0
                   ELSE blk.remaining - Len(data)]

append(blk, data) ==
    IF Len(data) > blk.remaining THEN Panic   \* checked_sub(..).unwrap()
    ELSE [inner |-> digest_update(blk.inner, data),
          remaining |-> blk.remaining - Len(data)]

\* an overflowing_append that loses the data that did not fit
overflowing_append_drops_rest(blk, data) ==
    LET n == Min(blk.remaining, Len(data))
        appended == append(blk, SubSeq(data, 1, n))
    IN  IF IsPanic(appended) THEN Panic
        ELSE [block |-> appended, rest |-> <<>>]

\* returns the block after the append and the data that did not fit
overflowing_append(blk, data) ==
    LET n == Min(blk.remaining, Len(data))
        a == SubSeq(data, 1, n)
        b == SubSeq(data, n + 1, Len(data))
        appended == append(blk, a)
    IN  IF IsPanic(appended) THEN Panic
        ELSE [block |-> appended, rest |-> b]

\* a clone returned without the data appended
clone_without_append(blk, data) ==
    IF Len(data) > blk.remaining THEN Panic ELSE blk

clone_and_append(blk, data) == append(blk, data)

\* finalize that forgets the zero padding
block_finalize_unpadded(blk) == digest_finalize(blk.inner)

block_finalize(blk) == digest_finalize(update_zeroes(blk.inner, blk.remaining))

----------------------------------------------------------------------------
(* FsVerityDigest::new_with_block_size_and_salt *)

RECURSIVE count_ones(_)
count_ones(n) == IF n = 0 THEN 0 ELSE (n % 2) + count_ones(n \div 2)

is_power_of_two(n) == count_ones(n) = 1

RECURSIVE trailing_zeros(_)
trailing_zeros(n) ==
    IF n = 0 THEN 64
    ELSE IF n % 2 = 1 THEN 0
    ELSE 1 + trailing_zeros(n \div 2)

\* the asserts without the power-of-two one
config_asserts_no_power_of_two(D, block_size, salt) ==
    /\ block_size <= MAX_BLOCK_SIZE
    /\ D.OutputSize * 2 <= block_size
    /\ Len(salt) <= MAX_SALT_SIZE
    /\ MAX_SALT_SIZE <= D.BlockSize

config_asserts(D, block_size, salt) ==
    /\ is_power_of_two(block_size)
    /\ block_size <= MAX_BLOCK_SIZE
    /\ D.OutputSize * 2 <= block_size
    /\ Len(salt) <= MAX_SALT_SIZE
    /\ MAX_SALT_SIZE <= D.BlockSize

new_with_block_size_and_salt(D, block_size, salt) ==
    IF ~config_asserts(D, block_size, salt) THEN Panic
    ELSE LET salted_digest ==
                 IF Len(salt) # 0
                 THEN update_padded(digest_new(D), salt, D.BlockSize)
                 ELSE digest_new(D)
         IN  IF IsPanic(salted_digest) THEN Panic ELSE
             [D |-> D,
              block_size |-> block_size,
              salt |-> salt,
              salted_digest |-> salted_digest,
              empty_block |-> FixedSizeBlock_new(salted_digest, block_size),
              levels |-> <<>>,
              total_size |-> 0]

new(D) == new_with_block_size_and_salt(D, DEFAULT_BLOCK_SIZE, <<>>)

----------------------------------------------------------------------------
(* FsVerityDigest::update *)

\* break as soon as the data is consumed, reserving no room in any level
level_break_no_reserve(D, overflow, keep_space_for_one_digest, level) ==
    Len(overflow) = 0

\* the flag read the wrong way round: room reserved in level 0 only
level_break_flag_inverted(D, overflow, keep_space_for_one_digest, level) ==
    /\ Len(overflow) = 0
    /\ (keep_space_for_one_digest \/ level.remaining >= D.OutputSize)

\* flush every level as soon as it is full, level 0 too
level_break_eager(D, overflow, keep_space_for_one_digest, level) ==
    /\ Len(overflow) = 0
    /\ level.remaining > 0

\* the condition under which the loop over the levels breaks
level_break(D, overflow, keep_space_for_one_digest, level) ==
    /\ Len(overflow) = 0
    /\ (~keep_space_for_one_digest \/ level.remaining >= D.OutputSize)

\* the loop `for level in self.levels.iter_mut()` from index i on; yields the
\* levels and the overflow left after the loop
RECURSIVE level_loop(_, _, _, _, _)
level_loop(e, levels, i, overflow, keep_space_for_one_digest) ==
    IF i > Len(levels) THEN [levels |-> levels, overflow |-> overflow]
    ELSE LET r == overflowing_append(levels[i], overflow)
         IN  IF IsPanic(r) THEN Panic
             ELSE IF level_break(e.D, r.rest, keep_space_for_one_digest, r.block)
             THEN [levels |-> [levels EXCEPT ![i] = r.block], overflow |-> r.rest]
             ELSE LET new_block == clone_and_append(e.empty_block, r.rest)
                      last_digest == block_finalize(r.block)
                  IN  IF IsPanic(new_block) THEN Panic
                      ELSE level_loop(e, [levels EXCEPT ![i] = new_block], i + 1,
                                      last_digest, TRUE)

\* the loop body that keeps only the new top level when the tree grows
update_chunk_keeps_top_only(e, chunk) ==
    LET r == level_loop(e, e.levels, 1, chunk, FALSE)
    IN  IF IsPanic(r) THEN Panic
        ELSE IF Len(r.overflow) # 0
        THEN LET pushed == clone_and_append(e.empty_block, r.overflow)
             IN  IF IsPanic(pushed) THEN Panic
                 ELSE [e EXCEPT !.levels = <<pushed>>,
                                !.total_size = @ + Len(chunk)]
        ELSE [e EXCEPT !.levels = r.levels, !.total_size = @ + Len(chunk)]

\* the loop body counting a whole block for every chunk
update_chunk_counts_blocks(e, chunk) ==
    LET r == level_loop(e, e.levels, 1, chunk, FALSE)
    IN  IF IsPanic(r) THEN Panic
        ELSE IF Len(r.overflow) # 0
        THEN LET pushed == clone_and_append(e.empty_block, r.overflow)
             IN  IF IsPanic(pushed) THEN Panic
                 ELSE [e EXCEPT !.levels = Append(r.levels, pushed),
                                !.total_size = @ + e.block_size]
        ELSE [e EXCEPT !.levels = r.levels, !.total_size = @ + e.block_size]

\* the body of `for chunk in data.as_ref().chunks(self.block_size)`
update_chunk(e, chunk) ==
    LET r == level_loop(e, e.levels, 1, chunk, FALSE)
    IN  IF IsPanic(r) THEN Panic
        ELSE IF Len(r.overflow) # 0
        THEN LET pushed == clone_and_append(e.empty_block, r.overflow)
             IN  IF IsPanic(pushed) THEN Panic
                 ELSE [e EXCEPT !.levels = Append(r.levels, pushed),
                                !.total_size = @ + Len(chunk)]
        ELSE [e EXCEPT !.levels = r.levels, !.total_size = @ + Len(chunk)]

\* update without the re-chunking: the whole data as one chunk
chunk_len_whole(block_size, data) == Len(data)

\* the length of the next chunk that chunks(block_size) yields
chunk_len(block_size, data) == Min(block_size, Len(data))

RECURSIVE update(_, _)
update(e, data) ==
    IF IsPanic(e) \/ Len(data) = 0 THEN e
    ELSE LET n == chunk_len(e.block_size, data)
         IN  update(update_chunk(e, SubSeq(data, 1, n)), SubSeq(data, n + 1, Len(data)))

----------------------------------------------------------------------------
(* FsVerityDigest::finalize_into, finalize_into_reset, reset *)

RECURSIVE to_le_bytes(_, _)
to_le_bytes(n, width) ==
    IF width = 0 THEN <<>>
    ELSE <<Byte(n % 256)>> \o to_le_bytes(n \div 256, width - 1)

\* `for mut level in self.levels.into_iter()` from index i on; yields last_digest
RECURSIVE flush_levels(_, _, _, _)
flush_levels(levels, i, last_digest, overflow) ==
    IF i > Len(levels) THEN [last_digest |-> last_digest]
    ELSE LET level == append(levels[i], overflow)
         IN  IF IsPanic(level) THEN Panic
             ELSE LET d == block_finalize(level)
                  IN  flush_levels(levels, i + 1, d, d)

\* the header with data_size in big-endian byte order
descriptor_header_big_endian(e) ==
    LET le == to_le_bytes(e.total_size, 8)
    IN  <<Byte(1), Byte(e.D.alg), Byte(trailing_zeros(e.block_size) % 256),
          Byte(Len(e.salt) % 256)>>
        \o to_le_bytes(0, 4) \o [i \in 1..8 |-> le[9 - i]]

\* the header with a data_size that is always 0
descriptor_header_no_size(e) ==
    <<Byte(1), Byte(e.D.alg), Byte(trailing_zeros(e.block_size) % 256),
      Byte(Len(e.salt) % 256)>>
    \o to_le_bytes(0, 4) \o to_le_bytes(0, 8)

\* the bytes the descriptor hash is fed before the root hash
descriptor_header(e) ==
    <<Byte(1), Byte(e.D.alg), Byte(trailing_zeros(e.block_size) % 256),
      Byte(Len(e.salt) % 256)>>
    \o to_le_bytes(0, 4) \o to_le_bytes(e.total_size, 8)

\* a flush that hashes an empty block when there is no level
root_hash_of_empty_block(e) ==
    IF Len(e.levels) = 0 THEN [last_digest |-> block_finalize(e.empty_block)]
    ELSE flush_levels(e.levels, 1, output_default(e.D), <<>>)

\* "flush all levels": last_digest after the loop over the levels
root_hash(e) == flush_levels(e.levels, 1, output_default(e.D), <<>>)

\* the sizes of the root_hash and reserved fields of fsverity_descriptor
ROOT_HASH_FIELD == 64
RESERVED_FIELD_short == 144 - 72
RESERVED_FIELD == 144

\* yields the output, and with it the root hash and the state of the
\* descriptor hash it was computed from
finalize_into(e) ==
    LET f == root_hash(e)
    IN  IF IsPanic(f) THEN Panic
        ELSE LET d1 == digest_update(e.salted_digest, descriptor_header(e))
                 d2 == update_padded(d1, f.last_digest, ROOT_HASH_FIELD)
                 d3 == IF IsPanic(d2) THEN Panic
                       ELSE update_padded(d2, e.salt, MAX_SALT_SIZE)
             IN  IF IsPanic(d3) THEN Panic
                 ELSE LET descriptor == update_zeroes(d3, RESERVED_FIELD)
                      IN  [out |-> digest_finalize(descriptor),
                           last_digest |-> f.last_digest,
                           descriptor |-> descriptor]

\* reset to the default configuration instead of the engine's own
reset_to_default(e) == new(e.D)

reset(e) == new_with_block_size_and_salt(e.D, e.block_size, e.salt)

\* the engine replaced first and then finalized, instead of the one it replaced
finalize_into_reset_of_new(e) ==
    LET fresh == new_with_block_size_and_salt(e.D, e.block_size, e.salt)
    IN  [out |-> finalize_into(fresh), self |-> fresh]

\* mem::replace(self, new engine).finalize_into(out): the output of the engine
\* that was replaced, and the engine left in self
finalize_into_reset(e) ==
    [out |-> finalize_into(e),
     self |-> new_with_block_size_and_salt(e.D, e.block_size, e.salt)]

----------------------------------------------------------------------------
(* The caller *)

\* the input streams: byte i (from 1) of each
StreamByte(s, i) == IF s = "zeros" THEN 0 ELSE (i * 7 + 3) % 251

Streams == {"zeros", "ramp"}

\* the n bytes of stream s that follow its first `from` bytes
Data(s, from, n) == [j \in 1..n |-> Byte(StreamByte(s, from + j))]

\* a salt of n bytes
Salt(n) == [i \in 1..n |-> Byte(i)]

Config(D, block_size, salt) == [D |-> D, block_size |-> block_size, salt |-> salt]

\* the configurations the streaming runs are constructed with: four that
\* construction accepts and one that breaks each assert
Configs ==
    { Config(Sha256, 64, <<>>), Config(Sha256, 128, Salt(1)),
      Config(Sha512, 128, Salt(32)), Config(Sha256, DEFAULT_BLOCK_SIZE, <<>>),
      Config(Sha256, 96, <<>>), Config(Sha256, 8192, <<>>),
      Config(Sha512, 64, <<>>), Config(Sha256, 64, Salt(33)) }

\* the configurations construction is tried with when no data is fed
AllBlockSizes ==
    {0, 1, 2, 3, 32, 63, 64, 65, 96, 127, 128, 129, 2048, 4095, 4096, 4097, 8192}

AllSaltLens == {0, 1, 31, 32, 33, 64, 65, 128, 129}

AllConfigs ==
    {Config(D, block_size, Salt(n)) :
        D \in {Sha256, Sha512}, block_size \in AllBlockSizes, n \in AllSaltLens}

Live(e) == "levels" \in DOMAIN e

Init ==
    /\ cfg \in Configs
    /\ stream \in Streams
    /\ fed = 0
    /\ engine = new_with_block_size_and_salt(cfg.D, cfg.block_size, cfg.salt)
    /\ result = NoResult
    /\ last = "new"
    /\ held = 0

Update(n) ==
    /\ Live(engine)
    /\ fed + n <= MaxTotal
    /\ engine' = update(engine, Data(stream, fed, n))
    /\ fed' = fed + n
    /\ result' = NoResult
    /\ last' = "update"
    /\ held' = 0
    /\ UNCHANGED <<cfg, stream>>

Finalize ==
    /\ Live(engine)
    /\ result' = finalize_into(engine)
    /\ engine' = Moved
    /\ last' = "finalize"
    /\ held' = fed
    /\ UNCHANGED <<cfg, stream, fed>>

FinalizeIntoReset ==
    /\ Live(engine)
    /\ result' = finalize_into_reset(engine).out
    /\ engine' = finalize_into_reset(engine).self
    /\ fed' = 0
    /\ last' = "finalize_into_reset"
    /\ held' = fed
    /\ UNCHANGED <<cfg, stream>>

Reset ==
    /\ Live(engine)
    /\ engine' = reset(engine)
    /\ fed' = 0
    /\ result' = NoResult
    /\ last' = "reset"
    /\ held' = fed
    /\ UNCHANGED <<cfg, stream>>

Next ==
    \/ \E n \in ChunkLens : Update(n)
    \/ Finalize
    \/ FinalizeIntoReset
    \/ Reset

Spec == Init /\ [][Next]_vars

\* construction with any configuration, then the operations on an engine that
\* is fed nothing
InitConfig ==
    /\ cfg \in AllConfigs
    /\ stream \in Streams
    /\ fed = 0
    /\ engine = new_with_block_size_and_salt(cfg.D, cfg.block_size, cfg.salt)
    /\ result = NoResult
    /\ last = "new"
    /\ held = 0

NextConfig ==
    \/ Finalize
    \/ FinalizeIntoReset
    \/ Reset

SpecConfig == InitConfig /\ [][NextConfig]_vars

----------------------------------------------------------------------------
(* Claims *)

\* the engine as constructed from the arguments in cfg
FreshEngine == new_with_block_size_and_salt(cfg.D, cfg.block_size, cfg.salt)

\* a finalize has just produced (or failed to produce) a result
HasResult == last \in {"finalize", "finalize_into_reset"}

\* the bytes fed to a digest state after the salted initial state
AfterSalt(st) == SubSeq(st.data, Len(FreshEngine.salted_digest.data) + 1, Len(st.data))

\* C1: chunk-boundary independence.  However the caller partitioned the first
\* `fed` bytes of the stream into update calls, the engine state equals the
\* state after one update call with all of them, and the digest a finalize
\* produced equals the digest of that one-call engine.
C1_ChunkIndependence ==
    /\ Live(engine) => engine = update(FreshEngine, Data(stream, 0, fed))
    /\ HasResult =>
           result = finalize_into(update(FreshEngine, Data(stream, 0, held)))

\* C1 witness: more than two blocks were fed in at least two calls (no single
\* call is that long) and the tree has four levels
C1_Witness ==
    /\ Live(engine)
    /\ last = "update"
    /\ fed = 259
    /\ Len(engine.levels) = 4

\* The reference Merkle tree of the fs-verity format, computed over the whole
\* input at once.
RefSaltedPrefix(c) ==
    IF Len(c.salt) = 0 THEN <<>> ELSE c.salt \o Zeroes(c.D.BlockSize - Len(c.salt))

RefHash(c, block) == digest_finalize([D |-> c.D, data |-> RefSaltedPrefix(c) \o block])

RefPad(bytes, size) == bytes \o Zeroes(size - Len(bytes))

RefNumBlocks(bytes, size) == (Len(bytes) + size - 1) \div size

\* the digests of the blocks of `bytes`, concatenated in order
RefLevel(c, bytes) ==
    LET size == c.block_size
        hashes == [j \in 1..RefNumBlocks(bytes, size) |->
                      RefHash(c, RefPad(SubSeq(bytes, (j - 1) * size + 1,
                                               Min(j * size, Len(bytes))), size))]
    IN  [p \in 1..(RefNumBlocks(bytes, size) * c.D.OutputSize) |->
            hashes[((p - 1) \div c.D.OutputSize) + 1][((p - 1) % c.D.OutputSize) + 1]]

RECURSIVE RefRoot(_, _)
RefRoot(c, bytes) ==
    IF RefNumBlocks(bytes, c.block_size) <= 1
    THEN RefHash(c, RefPad(bytes, c.block_size))
    ELSE RefRoot(c, RefLevel(c, bytes))

\* the field of `width` bytes at `offset` of the descriptor a result was hashed from
DescriptorField(r, offset, width) ==
    SubSeq(AfterSalt(r.descriptor), offset + 1, offset + width)

\* C2: Merkle root correctness.  For a non-empty input the root hash finalize
\* computes, and places at offset 16 of the descriptor, is the root of the
\* reference Merkle tree of the input (one padded block: the hash of that
\* block, with no level above it).
C2_MerkleRoot ==
    (HasResult /\ held > 0) =>
        /\ ~IsPanic(result)
        /\ result.last_digest = RefRoot(cfg, Data(stream, 0, held))
        /\ DescriptorField(result, 16, cfg.D.OutputSize)
               = RefRoot(cfg, Data(stream, 0, held))

\* C2 witness: a finalize over five data blocks, whose tree has four levels
C2_Witness ==
    /\ last = "finalize"
    /\ held = 257
    /\ cfg.block_size = 64
    /\ ~IsPanic(result)
    /\ result.last_digest = RefRoot(cfg, Data(stream, 0, held))

\* C3: zero-length input.  Finalizing an engine that consumed no byte hashes
\* no block (the root is OutputSize zero bytes, no digest byte enters the
\* descriptor) and yields the hash of the descriptor whose root_hash field is
\* 64 zero bytes and whose data_size field is 0.
C3_ZeroLength ==
    (HasResult /\ held = 0) =>
        /\ ~IsPanic(result)
        /\ result.last_digest = Zeroes(cfg.D.OutputSize)
        /\ DescriptorField(result, 16, 64) = Zeroes(64)
        /\ DescriptorField(result, 8, 8) = Zeroes(8)
        /\ \A i \in 1..Len(result.descriptor.data) :
               "b" \in DOMAIN result.descriptor.data[i]
        /\ result.out = digest_finalize(result.descriptor)

\* C3 witness: finalize as the first operation on a salted engine
C3_Witness ==
    /\ last = "finalize"
    /\ held = 0
    /\ Len(cfg.salt) = 32
    /\ ~IsPanic(result)
    /\ DescriptorField(result, 16, 64) = Zeroes(64)

\* C4: reset equivalence.  After reset the engine is the engine a construction
\* with the same block size and salt yields (no levels, total_size 0, the
\* same salted state), and feeding it X and finalizing gives what a fresh
\* engine fed X gives.
C4_ResetEquivalence ==
    last = "reset" =>
        /\ engine = FreshEngine
        /\ engine.levels = <<>>
        /\ engine.total_size = 0
        /\ \A n \in ChunkLens :
               finalize_into(update(engine, Data(stream, 0, n)))
                   = finalize_into(update(FreshEngine, Data(stream, 0, n)))

\* C4 witness: a reset of a salted engine, with a block size that is not the
\* default, that held three levels
C4_Witness ==
    /\ last = "reset"
    /\ held = 257
    /\ cfg.block_size = 128
    /\ Len(cfg.salt) = 32
    /\ engine = FreshEngine

\* the conditions of a valid configuration, as the specification states them
ConfigValid(c) ==
    /\ \E k \in 0..30 : c.block_size = 2^k
    /\ c.block_size <= 4096
    /\ 2 * c.D.OutputSize <= c.block_size
    /\ Len(c.salt) <= 32
    /\ Len(c.salt) <= c.D.BlockSize

\* C5: configuration validation.  Construction yields an engine exactly when
\* the block size is a power of two, at most 4096 and at least twice the output
\* size, and the salt is at most 32 bytes and at most one compression block;
\* otherwise it panics and there is no engine.
C5_ConfigValidation ==
    last = "new" =>
        /\ Live(engine) <=> ConfigValid(cfg)
        /\ ~ConfigValid(cfg) => engine = Panic

\* C5 witness: a block size that meets every condition but the power of two
C5_Witness ==
    /\ last = "new"
    /\ cfg = Config(Sha256, 96, <<>>)
    /\ engine = Panic

\* C6: no failure after construction.  From an engine that construction
\* accepted, no update and no finalize panics: no append gets more than
\* `remaining` bytes (the digests appended by finalize included) and no
\* update_padded more than padded_size.
C6_NoFault ==
    config_asserts(cfg.D, cfg.block_size, cfg.salt) =>
        /\ ~IsPanic(engine)
        /\ ~IsPanic(result)
        /\ Live(engine) => ~IsPanic(finalize_into(engine))

\* C6 witness: a finalize that appended a digest to each of three upper levels
C6_Witness ==
    /\ last = "finalize_into_reset"
    /\ held = 260
    /\ cfg.block_size = 64
    /\ ~IsPanic(result)
    /\ "h" \in DOMAIN result.last_digest[1]

\* the descriptor as the format lays it out, for n bytes of data and a root
RefLog2(n) == CHOOSE k \in 0..12 : 2^k = n

RefAlgorithmId(D) == IF D = Sha256 THEN 1 ELSE 2

\* n < 2^24 as 8 bytes, least significant first
RefLittleEndian8(n) ==
    [i \in 1..8 |-> Byte(IF i <= 3 THEN (n \div 256^(i - 1)) % 256 ELSE 0)]

RefDescriptor(c, n, root) ==
    <<Byte(1), Byte(RefAlgorithmId(c.D)), Byte(RefLog2(c.block_size)), Byte(Len(c.salt))>>
    \o Zeroes(4)
    \o RefLittleEndian8(n)
    \o RefPad(root, 64)
    \o RefPad(c.salt, 32)
    \o Zeroes(144)

\* C7: descriptor layout.  The final hash starts from the salted initial
\* state and is then fed exactly the 256 bytes of the descriptor: version 1,
\* algorithm id, log2(block_size), salt length, four zero bytes, the number of
\* bytes consumed as 8 little-endian bytes, the root padded to 64, the salt
\* padded to 32, 144 zero bytes.
C7_DescriptorLayout ==
    HasResult =>
        /\ ~IsPanic(result)
        /\ SubSeq(result.descriptor.data, 1, Len(FreshEngine.salted_digest.data))
               = FreshEngine.salted_digest.data
        /\ AfterSalt(result.descriptor) = RefDescriptor(cfg, held, result.last_digest)
        /\ Len(RefDescriptor(cfg, held, result.last_digest)) = 256
        /\ result.out = digest_finalize(result.descriptor)

\* C7 witness: a descriptor with a salt, a root and a size of more than one byte
C7_Witness ==
    /\ last = "finalize"
    /\ held = 260
    /\ Len(cfg.salt) = 32
    /\ ~IsPanic(result)
    /\ DescriptorField(result, 8, 2) = <<Byte(4), Byte(1)>>

\* C8 as stated: the descriptor that finalize hashes is 184 bytes long.
C8_Original_184 ==
    HasResult =>
        /\ ~IsPanic(result)
        /\ Len(AfterSalt(result.descriptor)) = 184

\* C8 amended: the descriptor that finalize hashes after flushing the levels
\* is 256 bytes long, holds the root hash at offset 16, and its hash is the
\* digest returned.
C8_Descriptor256 ==
    HasResult =>
        /\ ~IsPanic(result)
        /\ Len(AfterSalt(result.descriptor)) = 256
        /\ DescriptorField(result, 16, cfg.D.OutputSize) = result.last_digest
        /\ result.out = digest_finalize(result.descriptor)

\* C8 witness: a finalize of a two-level engine produced a 256-byte descriptor
C8_Witness ==
    /\ last = "finalize"
    /\ held = 65
    /\ cfg.block_size = 64
    /\ ~IsPanic(result)
    /\ Len(AfterSalt(result.descriptor)) = 256

\* C9: non-leaf headroom.  Between update calls every level above level 0 has
\* room for one more whole digest (so it is not full).
C9_NonLeafHeadroom ==
    Live(engine) =>
        \A i \in 2..Len(engine.levels) :
            /\ engine.levels[i].remaining >= engine.D.OutputSize
            /\ engine.levels[i].remaining <= engine.block_size

\* C9 witness: a non-leaf level is empty after the update call that filled it
\* flushed it into the level above
C9_Witness ==
    /\ Live(engine)
    /\ last = "update"
    /\ Len(engine.levels) >= 3
    /\ engine.levels[2].remaining = engine.block_size
    /\ engine.levels[3].remaining < engine.block_size

\* C10: leaf invariant.  Between update calls level 0, once it exists, holds
\* at least one input byte.
C10_LeafNotEmpty ==
    (Live(engine) /\ Len(engine.levels) >= 1) =>
        /\ engine.levels[1].remaining < engine.block_size
        /\ engine.levels[1].remaining >= 0

\* C10 witness: level 0 exactly full after an update, below another level
C10_Witness ==
    /\ Live(engine)
    /\ last = "update"
    /\ Len(engine.levels) >= 2
    /\ engine.levels[1].remaining = 0

\* the bytes of a level's block that were appended to it (after the salted state)
Content(e, i) == AfterSalt(e.levels[i].inner)

\* `bytes` is a sequence of whole digests of D: OutputSize bytes each, the first
\* byte of a digest at every multiple of OutputSize and nowhere else
WholeDigests(D, bytes) ==
    /\ Len(bytes) % D.OutputSize = 0
    /\ \A p \in 1..Len(bytes) :
           IF (p - 1) % D.OutputSize = 0
           THEN "h" \in DOMAIN bytes[p]
           ELSE bytes[p] = [d |-> ((p - 1) % D.OutputSize) + 1]

\* C11: digests are never split.  Every level above level 0 holds whole
\* digests only, its remaining is a multiple of OutputSize, and a digest pushed
\* into it by overflowing_append (in update) or append (in finalize) goes in
\* whole, leaving no leftover; level 0 holds raw bytes only.
C11_DigestsNeverSplit ==
    Live(engine) =>
        /\ \A i \in 2..Len(engine.levels) :
               LET pushed == overflowing_append(engine.levels[i],
                                                block_finalize(engine.levels[i - 1]))
               IN  /\ engine.levels[i].remaining % engine.D.OutputSize = 0
                   /\ WholeDigests(engine.D, Content(engine, i))
                   /\ ~IsPanic(pushed)
                   /\ pushed.rest = <<>>
                   /\ WholeDigests(engine.D, AfterSalt(pushed.block.inner))
        /\ Len(engine.levels) >= 1 =>
               \A p \in 1..Len(Content(engine, 1)) : "b" \in DOMAIN Content(engine, 1)[p]

\* C11 witness: level 0 has room for one byte only, so that the next two input
\* bytes are split across two blocks, and two levels above it hold digests
C11_Witness ==
    /\ Live(engine)
    /\ last = "update"
    /\ Len(engine.levels) = 3
    /\ engine.levels[1].remaining = 1
    /\ Len(overflowing_append(engine.levels[1], Data(stream, fed, 2)).rest) = 1
    /\ Len(Content(engine, 2)) = engine.D.OutputSize

\* C12: byte count.  total_size is the number of bytes passed to update, and
\* the data_size field of the descriptor is that number, little-endian.
C12_ByteCount ==
    /\ Live(engine) => engine.total_size = fed
    /\ HasResult =>
           /\ ~IsPanic(result)
           /\ DescriptorField(result, 8, 8) = RefLittleEndian8(held)

\* C12 witness: the count after calls that span several blocks and end inside one
C12_Witness ==
    /\ Live(engine)
    /\ last = "update"
    /\ fed = 196
    /\ engine.total_size = 196
    /\ engine.levels[1].remaining > 0

\* the digest of the first n bytes of the stream, fed to a fresh engine in one call
DigestOfPrefix(n) == finalize_into(update(FreshEngine, Data(stream, 0, n))).out

\* C13: off-by-one boundaries.  The digest of a file of exactly k blocks
\* (k >= 1) differs from the digest of the file one byte shorter and of the
\* file one byte longer, for the all-zero stream too.
C13_OffByOne ==
    (HasResult /\ held > 0 /\ held % cfg.block_size = 0) =>
        /\ ~IsPanic(result)
        /\ result.out # DigestOfPrefix(held - 1)
        /\ result.out # DigestOfPrefix(held + 1)

\* C13 witness: two full blocks of zero bytes, whose last block pads to the same
\* bytes as the block one byte shorter
C13_Witness ==
    /\ last = "finalize"
    /\ stream = "zeros"
    /\ cfg.block_size = 64
    /\ held = 128
    /\ ~IsPanic(result)
    /\ result.out # DigestOfPrefix(127)

\* how many hashes deep a byte is: 0 for a raw byte, 1 for a byte of the digest
\* of a data block, 2 for a byte of the digest of a block of such digests, ...
RECURSIVE Depth(_)
Depth(byte) ==
    IF "b" \in DOMAIN byte THEN 0
    ELSE IF "h" \in DOMAIN byte THEN 1 + Depth(AfterSalt(byte.h)[1])
    ELSE -1

\* level i (from 1) holds what belongs at its index: bytes i - 1 hashes deep
LevelAtItsIndex(e, i) ==
    \A p \in 1..Len(Content(e, i)) :
        (p - 1) % e.D.OutputSize = 0 => Depth(Content(e, i)[p]) = i - 1

\* C14: the number of levels never decreases across an update call, and every
\* level that existed before the call is still at its index after it: level 0
\* holds input bytes, level i digests of blocks of level i - 1.
C14_LevelsNeverShrink ==
    [][(Live(engine) /\ Live(engine') /\ last' = "update") =>
           /\ Len(engine'.levels) >= Len(engine.levels)
           /\ \A i \in 1..Len(engine.levels) : LevelAtItsIndex(engine', i)]_vars

\* C14 witness: an update grew the tree to four levels
C14_Witness ==
    /\ Live(engine)
    /\ last = "update"
    /\ fed = 257
    /\ Len(engine.levels) = 4
    /\ \A i \in 1..4 : LevelAtItsIndex(engine, i)

\* the inputs clone_and_append is tried with in a state: the next n bytes of the stream
TryLens == {0, 1, 31, 32}

\* C16 as stated: clone_and_append on any block, whatever was appended to it,
\* yields a block whose content is exactly the bytes given and whose remaining
\* is block_size minus their number.
C16_Original_AnyBlock ==
    Live(engine) =>
        \A i \in 1..Len(engine.levels) : \A n \in TryLens :
            LET bytes == Data(stream, fed, n)
                made == clone_and_append(engine.levels[i], bytes)
            IN  ~IsPanic(made) =>
                    /\ AfterSalt(made.inner) = bytes
                    /\ made.remaining = engine.block_size - n

\* C16 amended: clone_and_append yields a clone of the block it is called on
\* with the bytes appended after that block's own content.  The engine calls it
\* on empty_block only, which stays the block made from the salted initial
\* state with remaining = block_size, so a block the engine creates holds
\* exactly the bytes given and has remaining = block_size minus their number.
C16_CloneOfReceiver ==
    Live(engine) =>
        /\ engine.empty_block
               = FixedSizeBlock_new(FreshEngine.salted_digest, cfg.block_size)
        /\ \A n \in TryLens :
               LET bytes == Data(stream, fed, n)
                   made == clone_and_append(engine.empty_block, bytes)
               IN  /\ ~IsPanic(made)
                   /\ made.inner.data = FreshEngine.salted_digest.data \o bytes
                   /\ made.remaining = engine.block_size - n
        /\ \A i \in 1..Len(engine.levels) : \A n \in TryLens :
               LET bytes == Data(stream, fed, n)
                   made == clone_and_append(engine.levels[i], bytes)
               IN  IF n > engine.levels[i].remaining THEN IsPanic(made)
                   ELSE /\ ~IsPanic(made)
                        /\ made.inner.data = engine.levels[i].inner.data \o bytes
                        /\ made.remaining = engine.levels[i].remaining - n

\* C16 witness: a block that holds 31 input bytes, on which clone_and_append of
\* one byte yields a block of 32 bytes
C16_Witness ==
    /\ Live(engine)
    /\ last = "update"
    /\ fed = 31
    /\ cfg.block_size = 64
    /\ Len(Content(engine, 1)) = 31
    /\ Len(AfterSalt(clone_and_append(engine.levels[1], Data(stream, fed, 1)).inner)) = 32

\* the smallest L >= level such that k^(L-1) >= B, given capacity = k^(level-1)
RECURSIVE RefHeightFrom(_, _, _, _)
RefHeightFrom(B, k, level, capacity) ==
    IF capacity >= B THEN level
    ELSE RefHeightFrom(B, k, level + 1, capacity * k)

\* the height of the Merkle tree over n > 0 bytes
RefHeight(c, n) ==
    RefHeightFrom((n + c.block_size - 1) \div c.block_size,
                  c.block_size \div c.D.OutputSize, 1, 1)

\* C17: tree height.  The engine has no level exactly when it consumed no
\* byte; after n > 0 bytes it has as many levels as the Merkle tree over
\* B = ceil(n / block_size) blocks with k = block_size / OutputSize digests
\* per block is high: the smallest L >= 1 with k^(L-1) >= B.
C17_TreeHeight ==
    Live(engine) =>
        /\ Len(engine.levels) = 0 <=> fed = 0
        /\ fed > 0 => Len(engine.levels) = RefHeight(cfg, fed)

\* C17 witness: five blocks with two digests per block make four levels
C17_Witness ==
    /\ Live(engine)
    /\ last = "update"
    /\ cfg.block_size = 64
    /\ fed = 258
    /\ RefHeight(cfg, fed) = 4
    /\ Len(engine.levels) = 4

\* a holds the bytes of b and possibly more after them
Extends(a, b) == Len(a) >= Len(b) /\ SubSeq(a, 1, Len(b)) = b

\* every block in levels accounts for the bytes appended to it
Bookkeeping(e) ==
    \A i \in 1..Len(e.levels) :
        /\ e.levels[i].remaining = e.block_size - Len(Content(e, i))
        /\ e.levels[i].remaining >= 0
        /\ e.levels[i].remaining <= e.block_size
        /\ IsPanic(append(e.levels[i], Zeroes(e.levels[i].remaining + 1)))

\* C18: block capacity bookkeeping.  For every block in levels, remaining is
\* block_size minus the number of bytes appended to it and lies in
\* 0..block_size; an append of more than remaining panics; and while a block
\* lives (its content is only added to) its remaining does not increase.
C18_BlockBookkeeping ==
    [][(Live(engine') => Bookkeeping(engine'))
       /\ ((Live(engine) /\ Live(engine') /\ last' = "update") =>
              \A i \in 1..Len(engine.levels) :
                  Extends(engine'.levels[i].inner.data, engine.levels[i].inner.data)
                      => engine'.levels[i].remaining <= engine.levels[i].remaining)]_vars

\* C18 witness: blocks that are full, partly filled and empty at once
C18_Witness ==
    /\ Live(engine)
    /\ last = "update"
    /\ Len(engine.levels) = 3
    /\ engine.levels[1].remaining = 0
    /\ engine.levels[2].remaining = engine.block_size
    /\ engine.levels[3].remaining = engine.block_size - engine.D.OutputSize
    /\ Bookkeeping(engine)

\* C19: overflowing_append.  On a block with remaining r it appends the first
\* min(r, len) bytes, lowers remaining by that number and returns the rest:
\* what it appended followed by what it returned is the data it was given.  It
\* never panics, and a full block takes nothing and returns everything.
C19_OverflowingAppend ==
    Live(engine) =>
        \A i \in 1..Len(engine.levels) : \A n \in ChunkLens :
            LET blk == engine.levels[i]
                bytes == Data(stream, fed, n)
                taken == IF blk.remaining <= n THEN blk.remaining ELSE n
                r == overflowing_append(blk, bytes)
            IN  /\ ~IsPanic(r)
                /\ r.block.remaining = blk.remaining - taken
                /\ Len(r.rest) = n - taken
                /\ r.block.inner.data \o r.rest = blk.inner.data \o bytes
                /\ blk.remaining = 0 => (r.block = blk /\ r.rest = bytes)

\* C19 witness: a block with room for 32 bytes that takes 32 of 130 bytes, above
\* a full block that takes none
C19_Witness ==
    /\ Live(engine)
    /\ last = "update"
    /\ Len(engine.levels) = 3
    /\ engine.levels[1].remaining = 0
    /\ engine.levels[3].remaining = 32
    /\ Len(overflowing_append(engine.levels[3], Data(stream, fed, 130)).rest) = 98
    /\ overflowing_append(engine.levels[1], Data(stream, fed, 1)).rest = Data(stream, fed, 1)

\* C20: finalize_into_reset.  Its output is the digest of the bytes the engine
\* had consumed, as finalize yields it, and the engine it leaves is the one a
\* construction with the same block size and salt yields: no levels,
\* total_size 0, not the default configuration.
C20_FinalizeIntoReset ==
    last = "finalize_into_reset" =>
        /\ ~IsPanic(result)
        /\ result = finalize_into(update(FreshEngine, Data(stream, 0, held)))
        /\ engine = FreshEngine
        /\ engine.block_size = cfg.block_size
        /\ engine.salt = cfg.salt
        /\ engine.levels = <<>>
        /\ engine.total_size = 0

\* C20 witness: finalize_into_reset of a salted engine with three levels and a
\* block size that is not the default
C20_Witness ==
    /\ last = "finalize_into_reset"
    /\ held = 259
    /\ cfg.block_size = 128
    /\ Len(cfg.salt) = 32
    /\ ~IsPanic(result)
    /\ "h" \in DOMAIN result.last_digest[1]
    /\ engine = FreshEngine

====
